---- MODULE Spec2Model ----
(***************************************************************************)
(* Work-item ingestion pipeline: text normalisation and chunking           *)
(* (clean_workitems.py), upload of the chunk records into the Chroma       *)
(* collection (upload_workitems.py, upload_chromadb.py), the lookup of the *)
(* latest stored date (get_last_date.py) and the query for the work items  *)
(* changed since that date (fetch_workitems.py).                           *)
(*                                                                         *)
(* upload_workitems.py is the script that upserts record by record,        *)
(* upload_chromadb.py the one that groups the records by work item,        *)
(* deletes the entries it finds for the work item and adds.                *)
(*                                                                         *)
(* Python values are modelled as follows.  A str is a sequence of tokens   *)
(* (TLA+ strings): one token per character for rich text, chunks and      *)
(* entry ids, one token per field for a timestamp, one token for an       *)
(* opaque scalar such as a type or a state.  "" is <<>>.  A value that    *)
(* may be None or of mixed type is wrapped: None, Str(v), Num(n).         *)
(***************************************************************************)
EXTENDS Integers, Sequences, FiniteSets, TLC

VARIABLES
    \* chunk_text applied on its own
    text, max_words, chunks, chunk_pc,
    \* process_workitems
    workitems, wi_pos, processed_records, output_file, build_result, build_pc,
    \* the Chroma collection and one run of an upload script over INPUT_FILE
    store, records, script, sync_pc, rec_pos,
    \* history of the runs: the attempts made, the collection when the first
    \* attempt over these records began, the iteration at which the last
    \* attempt over them aborted (0: none did), whether the run repeats the
    \* completed run before it
    attempts, base_store, aborted_at, repeat,
    \* the work items whose lookup of existing entries failed in this run
    lookup_failed,
    \* clean_text and its table stage, each applied to raw_text
    raw_text, clean_result, table_result, clean_pc,
    \* the work items of the tracker, and the ids that the run before this
    \* one had fetched when its upload aborted
    upstream, aborted_fetch,
    \* get_latest_modified_date over the table embedding_metadata
    db_exists, embedding_metadata, rows, row_pos, latest, printed, date_pc

chunkVars == <<text, max_words, chunks, chunk_pc>>
buildVars == <<workitems, wi_pos, processed_records, output_file, build_result,
               build_pc>>
syncVars == <<store, records, script, sync_pc, rec_pos, attempts, base_store,
              aborted_at, repeat, lookup_failed>>
dateVars == <<db_exists, embedding_metadata, rows, row_pos, latest, printed,
              date_pc>>
cleanVars == <<raw_text, clean_result, table_result, clean_pc>>
pipeVars == <<upstream, aborted_fetch>>
vars == <<chunkVars, buildVars, syncVars, dateVars, cleanVars, pipeVars>>

----------------------------------------------------------------------------
(* Bounds of the model *)

MaxLen == 4          \* characters of a text given to chunk_text on its own
MaxWordsArg == 3     \* largest max_words given to chunk_text on its own
MaxItems == 2        \* work items in one export file
MaxComments == 2     \* comments of one work item
MaxRuns == 3         \* runs of an upload script, aborted ones included
MaxSyncComments == 3 \* comments of a work item that is uploaded
MaxRows == 2         \* rows of the table embedding_metadata
MaxCols == 2         \* columns of a Markdown table
MaxTableRows == 2    \* lines of a Markdown table after its separator
MaxUpstream == 2     \* work items of the tracker

(* Program constants *)

MAX_CHUNK_WORDS == 500
COMMENT_CHUNK_WORDS == 200
BUFFER_DAYS == 7

----------------------------------------------------------------------------
(* Python values *)

None == [t |-> "NoneType"]
Str(v) == [t |-> "str", v |-> v]
Num(n) == [t |-> "int", v |-> n]

\* truth value of a Python object: None, "" and 0 are false
Truthy(x) ==
    CASE x.t = "NoneType" -> FALSE
      [] x.t = "int" -> x.v # 0
      [] x.t = "str" -> x.v # <<>>

\* x or d
Or(x, d) == IF Truthy(x) THEN x ELSE d

Min(a, b) == IF a < b THEN a ELSE b

\* str(n) for n >= 0, one character per decimal digit
RECURSIVE Digits(_)
Digits(n) ==
    LET d == <<"0", "1", "2", "3", "4", "5", "6", "7", "8", "9">>
    IN  IF n < 10 THEN <<d[n + 1]>> ELSE Digits(n \div 10) \o <<d[(n % 10) + 1]>>

----------------------------------------------------------------------------
(* Strings as sequences of characters *)

Whitespace == {" ", "\n"}

Indices(s) == [i \in 1..Len(s) |-> i]

\* s with the characters of the set cs removed: re.sub of a character class
RemoveChars(s, cs) == SelectSeq(s, LAMBDA c : c \notin cs)

\* str.split(): the maximal runs of non-whitespace characters, in order
Split(s) ==
    LET first == SelectSeq(Indices(s),
                     LAMBDA i : s[i] \notin Whitespace
                                /\ (i = 1 \/ s[i - 1] \in Whitespace))
        last  == SelectSeq(Indices(s),
                     LAMBDA i : s[i] \notin Whitespace
                                /\ (i = Len(s) \/ s[i + 1] \in Whitespace))
    IN  [k \in 1..Len(first) |-> SubSeq(s, first[k], last[k])]

\* sep.join(ws[lo..hi])
RECURSIVE JoinRange(_, _, _, _)
JoinRange(sep, ws, lo, hi) ==
    IF lo > hi THEN <<>>
    ELSE IF lo = hi THEN ws[lo]
    ELSE LET mid == (lo + hi) \div 2
         IN  JoinRange(sep, ws, lo, mid) \o sep \o JoinRange(sep, ws, mid + 1, hi)

Join(sep, ws) == JoinRange(sep, ws, 1, Len(ws))

\* words[i:j] of Python (0-based, j exclusive, clipped to the length)
Slice(ws, i, j) == SubSeq(ws, i + 1, Min(j, Len(ws)))

\* list(range(0, n, step))
RangeFrom0(n, step) == [k \in 1..((n + step - 1) \div step) |-> (k - 1) * step]

----------------------------------------------------------------------------
(* clean_workitems.chunk_text *)

\* mutant: each slice one word too long
chunk_text_overlap(txt, maxw) ==
    LET words == Split(txt)
        starts == RangeFrom0(Len(words), maxw)
    IN  [k \in 1..Len(starts) |->
            Join(<<" ">>, Slice(words, starts[k], starts[k] + maxw + 1))]

chunk_text(txt, maxw) ==
    LET words == Split(txt)
        starts == RangeFrom0(Len(words), maxw)
    IN  [k \in 1..Len(starts) |->
            Join(<<" ">>, Slice(words, starts[k], starts[k] + maxw))]

----------------------------------------------------------------------------
(* Timestamps.  A datetime is its wall clock, in seconds since            *)
(* 2025-01-28T00:00:00, and its UTC offset in seconds.                    *)

DayTokens ==
    <<"2025-01-28", "2025-01-29", "2025-01-30", "2025-01-31", "2025-02-01",
      "2025-02-02", "2025-02-03", "2025-02-04", "2025-02-05", "2025-02-06">>
MonthDayTokens ==
    <<"January 28", "January 29", "January 30", "January 31", "February 01",
      "February 02", "February 03", "February 04", "February 05", "February 06">>
YearToken == " 2025"
ZoneOffsets == [z \in {"+00:00", "+01:00"} |-> IF z = "+00:00" THEN 0 ELSE 3600]

\* "%02d"
D2(n) == IF n < 10 THEN "0" \o ToString(n) ELSE ToString(n)

\* the number below bound that "%02d" renders as tok, or -1
Val2(tok, bound) ==
    IF \E n \in 0..(bound - 1) : D2(n) = tok
    THEN CHOOSE n \in 0..(bound - 1) : D2(n) = tok
    ELSE -1

DayOf(w) == w \div 86400
HourOf(w) == (w % 86400) \div 3600
MinuteOf(w) == (w % 3600) \div 60
SecondOf(w) == w % 60

\* str.replace(old, new) on a timestamp, token by token
ReplaceToken(s, old, new) ==
    [i \in 1..Len(s) |-> IF s[i] = old THEN new ELSE s[i]]

\* str.replace(old, "")
DropToken(s, old) == SelectSeq(s, LAMBDA tok : tok # old)

\* datetime.fromisoformat(s): the datetime, or None when it raises ValueError
fromisoformat(s) ==
    IF /\ Len(s) = 8
       /\ \E d \in 1..Len(DayTokens) : DayTokens[d] = s[1]
       /\ s[2] = "T" /\ s[4] = ":" /\ s[6] = ":"
       /\ Val2(s[3], 24) >= 0 /\ Val2(s[5], 60) >= 0 /\ Val2(s[7], 60) >= 0
       /\ s[8] \in DOMAIN ZoneOffsets
    THEN LET d == CHOOSE d \in 1..Len(DayTokens) : DayTokens[d] = s[1]
         IN  [wall |-> (d - 1) * 86400 + Val2(s[3], 24) * 3600
                       + Val2(s[5], 60) * 60 + Val2(s[7], 60),
              off |-> ZoneOffsets[s[8]]]
    ELSE None

\* dt.isoformat() of an offset-aware datetime
isoformat(dt) ==
    <<DayTokens[DayOf(dt.wall) + 1], "T", D2(HourOf(dt.wall)), ":",
      D2(MinuteOf(dt.wall)), ":", D2(SecondOf(dt.wall)),
      CHOOSE z \in DOMAIN ZoneOffsets : ZoneOffsets[z] = dt.off>>

\* dt.strftime("%B %d, %Y at %H:%M UTC"): the wall clock, seconds and offset dropped
strftime(dt) ==
    <<MonthDayTokens[DayOf(dt.wall) + 1], ",", YearToken, " at ",
      D2(HourOf(dt.wall)), ":", D2(MinuteOf(dt.wall)), " UTC">>

\* datetime.strptime(s, "%B %d %Y %H:%M"): the naive datetime, or None
strptime(s) ==
    IF /\ Len(s) = 6
       /\ \E d \in 1..Len(MonthDayTokens) : MonthDayTokens[d] = s[1]
       /\ s[2] = YearToken /\ s[3] = " " /\ s[5] = ":"
       /\ Val2(s[4], 24) >= 0 /\ Val2(s[6], 60) >= 0
    THEN LET d == CHOOSE d \in 1..Len(MonthDayTokens) : MonthDayTokens[d] = s[1]
         IN  [wall |-> (d - 1) * 86400 + Val2(s[4], 24) * 3600 + Val2(s[6], 60) * 60]
    ELSE None

\* the ISO string of wall clock w in zone z, as the tracker API writes it
IsoString(w, z) ==
    <<DayTokens[DayOf(w) + 1], "T", D2(HourOf(w)), ":", D2(MinuteOf(w)), ":",
      D2(SecondOf(w)), z>>

----------------------------------------------------------------------------
(* clean_workitems.clean_text.  A text is a sequence of characters.  The   *)
(* stages that are modelled are the ones the texts of the model can       *)
(* trigger: the HTML parser on start tags and stray "<", the mentions,    *)
(* the tables, the two dash stages, the LaTeX symbols, the braces, the    *)
(* sigils and the whitespace.  The texts hold no "&", "</", "<!", "<?",   *)
(* "![", "](", "http", "$", "\text" and no backtick, so that the stages  *)
(* of lines 105, 111, 114, 120, 137 and 139 leave them as they are.       *)

TextAlphabet == {"a", "b", " ", "*", "@"}

Letters ==
    {"a", "b", "c", "d", "e", "f", "g", "h", "i", "j", "k", "l", "m",
     "n", "o", "p", "q", "r", "s", "t", "u", "v", "w", "x", "y", "z",
     "A", "B", "C", "D", "E", "F", "G", "H", "I", "J", "K", "L", "M",
     "N", "O", "P", "Q", "R", "S", "T", "U", "V", "W", "X", "Y", "Z"}

DigitChars == {"0", "1", "2", "3", "4", "5", "6", "7", "8", "9"}

\* the characters of the class [\w-]
MentionChars == Letters \cup DigitChars \cup {"_", "-"}

Has(s, c) == \E i \in 1..Len(s) : s[i] = c

\* the first position from i on of a character of cs, or 0
FirstAt(s, cs, i) ==
    IF \E j \in i..Len(s) : s[j] \in cs
    THEN CHOOSE j \in i..Len(s) : s[j] \in cs /\ \A k \in i..(j - 1) : s[k] \notin cs
    ELSE 0

\* the first position from i on of a character outside cs, or Len(s) + 1
FirstNotAt(s, cs, i) ==
    IF \E j \in i..Len(s) : s[j] \notin cs
    THEN CHOOSE j \in i..Len(s) : s[j] \notin cs /\ \A k \in i..(j - 1) : s[k] \in cs
    ELSE Len(s) + 1

\* re.sub(r'\s+', ' ', s)
CollapseWhitespace(s) ==
    LET keep == SelectSeq(Indices(s),
                    LAMBDA i : s[i] \notin Whitespace
                               \/ i = 1 \/ s[i - 1] \notin Whitespace)
    IN  [k \in 1..Len(keep) |-> IF s[keep[k]] \in Whitespace THEN " " ELSE s[keep[k]]]

\* str.strip()
Strip(s) ==
    LET solid == SelectSeq(Indices(s), LAMBDA i : s[i] \notin Whitespace)
    IN  IF solid = <<>> THEN <<>> ELSE SubSeq(s, solid[1], solid[Len(solid)])

\* str.strip(chars)
StripChars(s, cs) ==
    LET solid == SelectSeq(Indices(s), LAMBDA i : s[i] \notin cs)
    IN  IF solid = <<>> THEN <<>> ELSE SubSeq(s, solid[1], solid[Len(solid)])

\* str.split(c): the fields between the occurrences of c, empty ones kept
SplitOn(s, c) ==
    LET seps == SelectSeq(Indices(s), LAMBDA i : s[i] = c)
    IN  [k \in 1..(Len(seps) + 1) |->
            SubSeq(s, IF k = 1 THEN 1 ELSE seps[k - 1] + 1,
                      IF k = Len(seps) + 1 THEN Len(s) ELSE seps[k] - 1)]

\* str.splitlines(): no last empty line after a final line break
splitlines(s) ==
    LET fields == SplitOn(s, "\n")
    IN  IF fields[Len(fields)] = <<>> THEN SubSeq(fields, 1, Len(fields) - 1)
        ELSE fields

\* BeautifulSoup(text, "html.parser").get_text(separator=" ").  html.parser
\* opens a tag at "<" only before a letter; any other "<" is text.

\* the position of the ">" that ends the start tag opening at i, or 0
TagEnd(s, i) ==
    IF s[i] = "<" /\ i < Len(s) /\ s[i + 1] \in Letters
    THEN FirstAt(s, {">"}, i + 1) ELSE 0

\* position i is inside a start tag; a tag ends at the first ">" after its "<"
InTag(s, i) ==
    \E a \in 1..i : s[a] = "<" /\ TagEnd(s, a) >= i

\* a text node as the tree keeps it: one of whitespace alone is cut to one
\* character
TextNode(cur) ==
    IF \A i \in 1..Len(cur) : cur[i] \in Whitespace
    THEN IF Has(cur, "\n") THEN <<"\n">> ELSE <<" ">>
    ELSE cur

\* the text nodes of the document: the stretches of text between the tags
TextNodes(s) ==
    LET first == SelectSeq(Indices(s),
                     LAMBDA i : ~InTag(s, i) /\ (i = 1 \/ InTag(s, i - 1)))
        last  == SelectSeq(Indices(s),
                     LAMBDA i : ~InTag(s, i) /\ (i = Len(s) \/ InTag(s, i + 1)))
    IN  [k \in 1..Len(first) |-> TextNode(SubSeq(s, first[k], last[k]))]

get_text(s) == IF Has(s, "<") THEN Join(<<" ">>, TextNodes(s)) ELSE s

MENTION_MAP ==
    (<<"0", "0", "0", "B", "F", "F", "2", "7", "-", "0", "E", "5", "7", "-",
     "6", "0", "9", "7", "-", "B", "D", "3", "3", "-", "8", "C", "7", "C",
     "B", "E", "E", "C", "3", "2", "6", "8">>
        :> <<"T", "r", "i", "n", "h", ",", " ", "S", "p", "e", "n", "c", "e", "r">>)
    @@
    (<<"6", "1", "8", "6", "4", "3", "4", "E", "-", "4", "7", "E", "8", "-",
     "6", "3", "C", "D", "-", "B", "7", "2", "F", "-", "A", "7", "1", "2",
     "8", "8", "E", "B", "6", "D", "5", "6">>
        :> <<"G", "e", "n", "a", "r", "o", " ", "S", "c", "a", "v", "e", "l", "l", "o">>)
    @@
    (<<"6", "7", "1", "1", "8", "1", "5", "B", "-", "2", "1", "9", "C", "-",
     "6", "B", "1", "C", "-", "9", "5", "1", "4", "-", "D", "1", "7", "3",
     "7", "7", "9", "3", "5", "0", "7", "7">>
        :> <<"M", "i", "n", " ", "W", "a", "n", "g">>)
    @@
    (<<"7", "A", "C", "8", "6", "A", "0", "C", "-", "3", "5", "9", "7", "-",
     "6", "C", "8", "8", "-", "9", "1", "2", "D", "-", "2", "A", "2", "B",
     "F", "6", "0", "0", "C", "6", "B", "1">>
        :> <<"R", "a", "u", "l", " ", "L", "e", "a", "l">>)
    @@
    (<<"C", "E", "B", "D", "F", "F", "8", "8", "-", "6", "1", "6", "E", "-",
     "6", "6", "5", "A", "-", "B", "F", "1", "A", "-", "B", "8", "5", "A",
     "0", "C", "B", "B", "3", "0", "E", "E">>
        :> <<"A", "m", "y", " ", "C", "r", "o", "s", "s", "a", "n">>)

\* MENTION_MAP.get(mention_id, "[UNKNOWN]")
replace_mention(mention_id) ==
    IF mention_id \in DOMAIN MENTION_MAP THEN MENTION_MAP[mention_id]
    ELSE <<"[", "U", "N", "K", "N", "O", "W", "N", "]">>

\* the position of the ">" that ends a match of @<([\w-]+)> at i, or 0
MentionEnd(s, i) ==
    LET stop == FirstNotAt(s, MentionChars, i + 2)
    IN  IF /\ s[i] = "@" /\ i < Len(s) /\ s[i + 1] = "<"
           /\ stop > i + 2 /\ stop <= Len(s) /\ s[stop] = ">"
        THEN stop ELSE 0

\* re.sub(r'@<([\w-]+)>', replace_mention, s); no two matches overlap
SubMentions(s) ==
    LET piece(i) ==
            IF MentionEnd(s, i) > 0
            THEN replace_mention(SubSeq(s, i + 2, MentionEnd(s, i) - 1))
            ELSE IF \E a \in 1..(i - 1) : s[a] = "@" /\ MentionEnd(s, a) >= i
            THEN <<>>
            ELSE <<s[i]>>
    IN  Join(<<>>, [i \in 1..Len(s) |-> piece(i)])

\* lines 98-102: the mentions are resolved, then every "@" is removed
ResolveMentions(s) ==
    IF Has(s, "@") THEN RemoveChars(SubMentions(s), {"@"}) ELSE s

\* one row of a table: line.strip("|").split("|"), each cell stripped
Cells(line) ==
    LET fields == SplitOn(StripChars(line, {"|"}), "|")
    IN  [k \in 1..Len(fields) |-> Strip(fields[k])]

\* "Row: " + ", ".join(f"{h} = {v}" ...) + "."
RowSentence(headers, values) ==
    <<"R", "o", "w", ":", " ">> \o
    Join(<<",", " ">>,
         [k \in 1..Len(headers) |-> headers[k] \o <<" ", "=", " ">> \o values[k]])
    \o <<".">>

markdown_table_to_sentences(s) ==
    LET all == splitlines(s)
        piped == SelectSeq(all, LAMBDA line : Strip(line) # <<>>
                                               /\ Strip(line)[1] = "|")
        lines == [k \in 1..Len(piped) |-> Strip(piped[k])]
        headers == Cells(lines[1])
        valid == SelectSeq(SubSeq(lines, 3, Len(lines)),
                          LAMBDA row : Len(Cells(row)) = Len(headers))
    IN  IF Len(lines) < 2 THEN s
        ELSE Join(<<" ">>, [k \in 1..Len(valid) |->
                               RowSentence(headers, Cells(valid[k]))])

\* position i is in a run of three or more "-"
InDashRun(s, i) ==
    \E a \in (i - 2)..i :
        a >= 1 /\ a + 2 <= Len(s) /\ \A k \in a..(a + 2) : s[k] = "-"

\* a replacement of the runs of three or more "-" by one space each; with
\* breaks, a line break next to a run goes with it
SubDashRuns(s, breaks) ==
    LET gone(i) == \/ InDashRun(s, i) /\ i > 1 /\ s[i - 1] = "-"
                   \/ /\ breaks /\ s[i] = "\n"
                      /\ \/ i < Len(s) /\ InDashRun(s, i + 1)
                         \/ i > 1 /\ InDashRun(s, i - 1)
        keep == SelectSeq(Indices(s), LAMBDA i : ~gone(i))
    IN  [k \in 1..Len(keep) |->
            IF InDashRun(s, keep[k]) THEN " " ELSE s[keep[k]]]

\* re.sub(r'\n?-{3,}\n?', ' ', s)
remove_horizontal_rules(s) == IF Has(s, "-") THEN SubDashRuns(s, TRUE) ELSE s

\* re.sub(k, v, s) for a pattern k that is the literal command pat; no two
\* occurrences of a command overlap, each begins with its only backslash
SubLiteral(s, pat, rep) ==
    LET n == Len(pat)
        at(i) == i >= 1 /\ i + n - 1 <= Len(s) /\ SubSeq(s, i, i + n - 1) = pat
        piece(i) == IF at(i) THEN rep
                    ELSE IF \E a \in (i - n + 1)..(i - 1) : at(a) THEN <<>>
                    ELSE <<s[i]>>
    IN  Join(<<>>, [i \in 1..Len(s) |-> piece(i)])

\* the table of lines 123-132, in its order
latex_symbols ==
    <<<<<<"\\", "l", "e", "q">>, <<"<", "=">>>>,
      <<<<"\\", "g", "e", "q">>, <<">", "=">>>>,
      <<<<"\\", "t", "i", "m", "e", "s">>, <<"*">>>>,
      <<<<"\\", "c", "d", "o", "t">>, <<"*">>>>,
      <<<<"\\", "p", "m">>, <<"+", "/", "-">>>>,
      <<<<"\\", "n", "e", "q">>, <<"!", "=">>>>,
      <<<<"\\", "a", "p", "p", "r", "o", "x">>, <<"~">>>>,
      <<<<"\\", "t", "o">>, <<"-", ">">>>>>>

\* the loop of lines 133-134 from entry k on
RECURSIVE SubLatexSymbols(_, _)
SubLatexSymbols(s, k) ==
    IF k > Len(latex_symbols) THEN s
    ELSE SubLatexSymbols(SubLiteral(s, latex_symbols[k][1], latex_symbols[k][2]), k + 1)

ReplaceLatexSymbols(s) == IF Has(s, "\\") THEN SubLatexSymbols(s, 1) ELSE s

\* re.sub(r'---+', ' ', s)
RemoveDashRuns(s) == IF Has(s, "-") THEN SubDashRuns(s, FALSE) ELSE s

clean_text(x) ==
    IF ~Truthy(x) THEN <<>>
    ELSE Strip(CollapseWhitespace(                     \* lines 151, 153
           RemoveDashRuns(                             \* line 148
             RemoveChars(                              \* line 145
               RemoveChars(                            \* line 142
                 ReplaceLatexSymbols(                  \* lines 123-134
                   remove_horizontal_rules(            \* line 117
                     markdown_table_to_sentences(      \* line 108
                       ResolveMentions(                \* lines 98-102
                         get_text(x.v))))),            \* line 95
                 {"{", "}"}),
               {"*", "#", ">"}))))

----------------------------------------------------------------------------
(* clean_workitems.prepare_embedding_text *)

\* the result of a call: a value, or an exception that leaves the function
Return(v) == [raised |-> FALSE, value |-> v]
Raise(e) == [raised |-> TRUE, error |-> e]

\* str(chunk_index) inside the f-string of the entry id
StrOf(x) == IF x.t = "int" THEN Digits(x.v) ELSE x.v

\* f"{rec['id']}_{rec['chunk_index']}"
RecId(rec) == Digits(rec.id.v) \o <<"_">> \o StrOf(rec.chunk_index)

Title(wi) == wi.title
Description(wi) == clean_text(wi.description)
Acceptance(wi) == clean_text(wi.acceptance_criteria)

\* "\n".join(parts), parts being the non-empty ones of title, description, acceptance
FullText(wi) ==
    Join(<<"\n">>,
         SelectSeq(<<IF Truthy(Title(wi)) THEN Title(wi).v ELSE <<>>,
                     Description(wi), Acceptance(wi)>>,
                   LAMBDA part : part # <<>>))

MainMetadata(wi) ==
    [title |-> Title(wi),
     section |-> Str(<<"main">>),
     description |-> Str(Description(wi)),
     acceptance_criteria |-> Str(Acceptance(wi)),
     type |-> wi.type,
     state |-> wi.state,
     assignedTo |-> Or(wi.assignedTo, Str(<<>>)),
     storyPoints |-> Or(wi.story_points, Num(0)),
     tags |-> Or(wi.tags, Str(<<>>)),
     createdDate |-> wi.createdDate,
     changedDate |-> wi.changedDate]

MainRecords(wi) ==
    LET records_of(cs, metadata) ==
            [k \in 1..Len(cs) |->
                [id |-> wi.id,
                 chunk_index |-> Num(k - 1),
                 embedding_text |-> cs[k],
                 metadata |-> metadata]]
    IN  records_of(chunk_text(FullText(wi), MAX_CHUNK_WORDS), MainMetadata(wi))

\* c.get("createdBy", {}).get("displayName", "Unknown")
Author(c) ==
    IF "displayName" \in DOMAIN c.createdBy THEN c.createdBy.displayName
    ELSE <<"Unknown">>

\* mutant: the comment position left out of the chunk index
CommentChunkIndexNoPosition(idx, jdx) == <<"c">> \o Digits(jdx)

\* f"c{idx}_{jdx}"
CommentChunkIndex(idx, jdx) == <<"c">> \o Digits(idx) \o <<"_">> \o Digits(jdx)

CommentMetadata(wi, author, date, mod_date) ==
    [title |-> Title(wi),
     section |-> Str(<<"comment">>),
     description |-> Str(Description(wi)),
     acceptance_criteria |-> Str(Acceptance(wi)),
     author |-> Str(author),
     createdDate |-> Str(date),
     modifiedDate |-> Str(mod_date),
     type |-> wi.type,
     state |-> wi.state,
     assignedTo |-> Or(wi.assignedTo, Str(<<>>)),
     storyPoints |-> Or(wi.story_points, Num(0)),
     tags |-> Or(wi.tags, Str(<<>>))]

\* the records of the comment at position idx (0-based), its dates parsed
CommentRecords(wi, idx, c, created, modified) ==
    LET records_of(cs, author, date, metadata) ==
            [k \in 1..Len(cs) |->
                [id |-> wi.id,
                 chunk_index |-> Str(CommentChunkIndex(idx, k - 1)),
                 embedding_text |-> author \o <<" commented on (">> \o date
                                    \o <<"): ">> \o cs[k],
                 metadata |-> metadata]]
    IN  records_of(chunk_text(clean_text(c.text), COMMENT_CHUNK_WORDS),
                   Author(c), strftime(created),
                   CommentMetadata(wi, Author(c), strftime(created),
                                   strftime(modified)))

\* datetime.fromisoformat(iso_str.replace("Z", "+00:00"))
ParseCommentDate(iso_str) == fromisoformat(ReplaceToken(iso_str, "Z", "+00:00"))

\* the loop over enumerate(comments), from the comment at position idx on
RECURSIVE CommentLoop(_, _, _)
CommentLoop(wi, idx, recs) ==
    IF idx >= Len(wi.comments) THEN Return(recs)
    ELSE LET c == wi.comments[idx + 1]
             created == ParseCommentDate(c.createdDate)
             modified == ParseCommentDate(c.modifiedDate)
         IN  IF created = None \/ modified = None THEN Raise("ValueError")
             ELSE IF clean_text(c.text) = <<>> THEN CommentLoop(wi, idx + 1, recs)
             ELSE CommentLoop(wi, idx + 1,
                              recs \o CommentRecords(wi, idx, c, created, modified))

prepare_embedding_text(wi) == CommentLoop(wi, 0, MainRecords(wi))

\* a text of n one-letter words separated by single spaces
Words(n) ==
    [i \in 1..(IF n = 0 THEN 0 ELSE 2 * n - 1) |->
        IF i % 2 = 0 THEN " " ELSE IF i % 4 = 1 THEN "a" ELSE "b"]

\* every sequence over S of length at most n
SeqsUpTo(S, n) == UNION {[1..k -> S] : k \in 0..n}

ChunkAlphabet == {"a", "b", " ", "\n"}

IdleChunk ==
    /\ text = <<>>
    /\ max_words = 1
    /\ chunks = <<>>
    /\ chunk_pc = "idle"

InitChunk ==
    /\ \/ /\ text \in SeqsUpTo(ChunkAlphabet, MaxLen)
          /\ max_words \in 1..MaxWordsArg
       \/ /\ text = Words(2 * MAX_CHUNK_WORDS + COMMENT_CHUNK_WORDS)
          /\ max_words = MAX_CHUNK_WORDS
    /\ chunks = <<>>
    /\ chunk_pc = "start"

\* one call chunk_text(text, max_words)
CallChunkText ==
    /\ chunk_pc = "start"
    /\ chunks' = chunk_text(text, max_words)
    /\ chunk_pc' = "done"
    /\ UNCHANGED <<text, max_words>>

----------------------------------------------------------------------------
(* clean_text and markdown_table_to_sentences applied to rich text *)

\* a text with one mention token between two stretches of plain text
MentionText(pre, id, post) == pre \o <<"@", "<">> \o id \o <<">">> \o post

\* the ids of the table, and two ids it does not hold
MentionIds ==
    DOMAIN MENTION_MAP \cup {<<"0", "A", "-", "1">>, <<"x", "_", "1">>}

BeforeMention == {<<>>, <<"T", "h", "a", "n", "k", "s", " ">>, <<"a", "@", "b", " ">>}
AfterMention == {<<>>, <<" ", "f", "o", "r", " ", "t", "h", "e", " ", "f", "i", "x">>, <<"@", " ", "c">>}

MentionTexts ==
    {MentionText(pre, id, post) :
        pre \in BeforeMention, id \in MentionIds, post \in AfterMention}

\* a text with one LaTeX command between two stretches of plain text
LatexText(pre, cmd, post) == pre \o cmd \o post

BeforeLatex == {<<>>, <<"a", " ">>, <<"{", "a", "}">>}
AfterLatex == {<<>>, <<" ", "b">>, <<"{", "b", "}">>}

LatexTexts ==
    {LatexText(pre, latex_symbols[k][1], post) :
        pre \in BeforeLatex, k \in 1..Len(latex_symbols), post \in AfterLatex}

\* a line of a table: its cells between "|"
PipeLine(cells) == <<"|">> \o Join(<<"|">>, cells) \o <<"|">>

HeaderCell(c) == <<"h">> \o Digits(c)
ValueCell(r, c) == <<"v">> \o Digits(r) \o Digits(c)

\* line r after the separator of a table of n columns: a row of n cells, or
\* one with a cell too many
DataLine(n, r, kind) ==
    PipeLine([c \in 1..(IF kind = "row" THEN n ELSE n + 1) |-> ValueCell(r, c)])

\* a table of n columns whose lines after the separator are of the given
\* kinds, with text on the lines before and after it
TableLines(before, n, kinds, after) ==
    before
    \o <<PipeLine([c \in 1..n |-> HeaderCell(c)]),
         PipeLine([c \in 1..n |-> <<"-", "-", "-">>])>>
    \o [r \in 1..Len(kinds) |-> DataLine(n, r, kinds[r])]
    \o after

TableText(before, n, kinds, after) ==
    Join(<<"\n">>, TableLines(before, n, kinds, after))

BeforeTable == {<<>>, <<<<"i", "n", "t", "r", "o">>>>}
AfterTable == {<<>>, <<<<"o", "u", "t", "r", "o">>>>}
LineKinds == {"row", "odd"}

TableTexts ==
    {TableText(before, n, kinds, after) :
        before \in BeforeTable, n \in 1..MaxCols,
        kinds \in SeqsUpTo(LineKinds, MaxTableRows), after \in AfterTable}

\* texts with fewer than two lines that start with "|"
LoneLineTexts ==
    {Join(<<"\n">>, before \o piped \o after) :
        before \in BeforeTable, after \in AfterTable,
        piped \in {<<>>, <<PipeLine(<<HeaderCell(1), HeaderCell(2)>>)>>}}

RichTexts == MentionTexts \cup LatexTexts \cup TableTexts \cup LoneLineTexts

IdleClean ==
    /\ raw_text = <<>>
    /\ clean_result = None
    /\ table_result = None
    /\ clean_pc = "idle"

InitClean ==
    /\ raw_text \in RichTexts
    /\ clean_result = None
    /\ table_result = None
    /\ clean_pc = "start"

\* one call clean_text(raw_text)
CallCleanText ==
    /\ clean_pc = "start"
    /\ clean_result = None
    /\ clean_result' = Str(clean_text(Str(raw_text)))
    /\ UNCHANGED <<raw_text, table_result, clean_pc>>

\* one call markdown_table_to_sentences(raw_text)
CallTableStage ==
    /\ clean_pc = "start"
    /\ table_result = None
    /\ table_result' = Str(markdown_table_to_sentences(raw_text))
    /\ UNCHANGED <<raw_text, clean_result, clean_pc>>

----------------------------------------------------------------------------
(* clean_workitems.process_workitems on the export of fetch_workitems     *)

Clock(d, h, m, s) == d * 86400 + h * 3600 + m * 60 + s

\* the record fetch_workitems assembles for one work item; f holds its
\* scalar fields
RawWorkItem(id, title, description, acceptance, f, comments) ==
    [id |-> Num(id), title |-> title, description |-> description,
     acceptance_criteria |-> acceptance, tags |-> f.tags,
     story_points |-> f.story_points, type |-> f.type, state |-> f.state,
     assignedTo |-> f.assignedTo, createdDate |-> f.createdDate,
     changedDate |-> f.changedDate, comments |-> comments]

\* the scalar fields of a work item that has them all
PlainFields ==
    [type |-> Str(<<"Bug">>), state |-> Str(<<"New">>),
     assignedTo |-> Str(<<"Ann">>), story_points |-> Num(3),
     tags |-> Str(<<"ui">>),
     createdDate |-> Str(IsoString(Clock(0, 9, 0, 0), "Z")),
     changedDate |-> Str(IsoString(Clock(0, 20, 8, 11), "Z"))]

\* the scalar fields, each set or null as the export has it
NullableFields ==
    [type : {None, PlainFields.type},
     state : {None, PlainFields.state},
     assignedTo : {None, PlainFields.assignedTo},
     story_points : {None, PlainFields.story_points},
     tags : {None, PlainFields.tags},
     createdDate : {None, PlainFields.createdDate},
     changedDate : {None, PlainFields.changedDate}]

PlainWorkItem(id, title, description, acceptance, comments) ==
    RawWorkItem(id, title, description, acceptance, PlainFields, comments)

SigilText == <<"*", " ", "@">>
ShortText == <<"a", " ", "b">>

CreatedStamp == IsoString(Clock(0, 20, 8, 11), "Z")
ModifiedStamp == IsoString(Clock(0, 21, 30, 5), "Z")

RawComment(created, modified, txt) ==
    [createdBy |-> [displayName |-> <<"Ann">>], createdDate |-> created,
     modifiedDate |-> modified, text |-> Str(txt)]

\* comments of every text, with at most one of the two dates missing
Comments ==
    {RawComment(cd, md, txt) :
        cd \in {CreatedStamp, <<>>}, md \in {ModifiedStamp, <<>>},
        txt \in {SigilText, ShortText, Words(COMMENT_CHUNK_WORDS + 1)}}
    \ {RawComment(<<>>, <<>>, txt) :
        txt \in {SigilText, ShortText, Words(COMMENT_CHUNK_WORDS + 1)}}

\* one work item, its bodies and comments varied
DetailedItems ==
    {PlainWorkItem(1, ti, Str(de), Str(ac), cs) :
        ti \in {None, Str(<<"a">>)},
        de \in {<<>>, <<"*", " ", "b">>, Words(MAX_CHUNK_WORDS + 1)},
        ac \in {<<>>, <<"b">>},
        cs \in SeqsUpTo(Comments, MaxComments)}

\* one work item, its title and each scalar field set or null
ScalarItems ==
    {RawWorkItem(1, ti, Str(<<"a">>), Str(<<>>), f, cs) :
        ti \in {None, Str(<<>>), Str(<<"a">>)},
        f \in NullableFields,
        cs \in {<<>>, <<RawComment(CreatedStamp, ModifiedStamp, ShortText)>>}}

\* an export of several work items, each with at most one comment
BriefItems(id) ==
    {PlainWorkItem(id, Str(<<"a">>), Str(<<>>), Str(<<>>), cs) :
        cs \in SeqsUpTo({RawComment(CreatedStamp, ModifiedStamp, ShortText),
                         RawComment(CreatedStamp, ModifiedStamp, SigilText),
                         RawComment(<<>>, ModifiedStamp, ShortText)}, 1)}

BriefExports ==
    UNION {{ws \in [1..n -> UNION {BriefItems(i) : i \in 1..n}] :
               \A i \in 1..n : ws[i].id = Num(i)} : n \in 1..MaxItems}

Exports ==
    {<<wi>> : wi \in DetailedItems \cup ScalarItems} \cup BriefExports

IdleBuild ==
    /\ workitems = <<>>
    /\ wi_pos = 1
    /\ processed_records = <<>>
    /\ output_file = None
    /\ build_result = None
    /\ build_pc = "idle"

InitBuild ==
    /\ workitems \in Exports
    /\ wi_pos = 1
    /\ processed_records = <<>>
    /\ output_file = None
    /\ build_result = None
    /\ build_pc = "loop"

\* one iteration of "for wi in workitems" that extends processed_records
ProcessWorkitem ==
    /\ build_pc = "loop"
    /\ wi_pos <= Len(workitems)
    /\ LET extend(r) ==
               /\ ~r.raised
               /\ processed_records' = processed_records \o r.value
       IN  extend(prepare_embedding_text(workitems[wi_pos]))
    /\ wi_pos' = wi_pos + 1
    /\ UNCHANGED <<workitems, output_file, build_result, build_pc>>

\* mutant: the error is caught and the loop goes on with the next work item
ProcessSwallows ==
    /\ build_pc = "loop"
    /\ wi_pos <= Len(workitems)
    /\ prepare_embedding_text(workitems[wi_pos]).raised
    /\ wi_pos' = wi_pos + 1
    /\ UNCHANGED <<workitems, processed_records, output_file, build_result, build_pc>>

\* the iteration in which prepare_embedding_text raises: nothing catches it
ProcessRaises ==
    /\ build_pc = "loop"
    /\ wi_pos <= Len(workitems)
    /\ LET propagate(r) ==
               /\ r.raised
               /\ build_result' = r
       IN  propagate(prepare_embedding_text(workitems[wi_pos]))
    /\ build_pc' = "raised"
    /\ UNCHANGED <<workitems, wi_pos, processed_records, output_file>>

\* after the loop: the records are written to output_file and returned
WriteOutput ==
    /\ build_pc = "loop"
    /\ wi_pos > Len(workitems)
    /\ output_file' = [t |-> "file", v |-> processed_records]
    /\ build_result' = Return(processed_records)
    /\ build_pc' = "done"
    /\ UNCHANGED <<workitems, wi_pos, processed_records>>

----------------------------------------------------------------------------
(* The Chroma collection "workitems": a table of rows, one per entry id   *)

Row(id, document, metadata) == [id |-> id, document |-> document, metadata |-> metadata]

HasId(st, id) == \E i \in 1..Len(st) : st[i].id = id

\* mutant: the entry is inserted beside the one that has its id
UpsertAppend(st, id, document, metadata) == Append(st, Row(id, document, metadata))

\* collection.upsert(documents=[document], metadatas=[metadata], ids=[id])
Upsert(st, id, document, metadata) ==
    IF HasId(st, id)
    THEN [i \in 1..Len(st) |->
             IF st[i].id = id THEN Row(id, document, metadata) ELSE st[i]]
    ELSE Append(st, Row(id, document, metadata))

\* collection.add(...): an id the collection holds already is left as it is
Add(st, id, document, metadata) ==
    IF HasId(st, id) THEN st ELSE Append(st, Row(id, document, metadata))

\* collection.delete(ids=ids)
Delete(st, ids) == SelectSeq(st, LAMBDA row : row.id \notin ids)

\* collection.get(where={"id": wid})["ids"]: the ids of the entries whose
\* metadata has the key "id" with the value wid
GetWhereId(st, wid) ==
    LET hits == SelectSeq(st, LAMBDA row : /\ "id" \in DOMAIN row.metadata
                                           /\ row.metadata["id"] = wid)
    IN  [i \in 1..Len(hits) |-> hits[i].id]

----------------------------------------------------------------------------
(* upload_workitems.main: one upsert per record *)

\* mutant: the entry id is the work item id alone
UpsertRecordById(st, rec) ==
    Upsert(st, Digits(rec.id.v), rec.embedding_text, rec.metadata)

\* the body of "for rec in records"
UpsertRecord(st, rec) == Upsert(st, RecId(rec), rec.embedding_text, rec.metadata)

----------------------------------------------------------------------------
(* upload_chromadb.main: one iteration per work item of the file.  (The  *)
(* module reads os.getenv at line 6 without importing os; main is         *)
(* modelled as called with that name bound.)                               *)

\* the keys of grouped, in the order of their first record
GroupKeys(recs) ==
    LET firsts == SelectSeq(Indices(recs),
                      LAMBDA i : \A j \in 1..(i - 1) : recs[j].id # recs[i].id)
    IN  [k \in 1..Len(firsts) |-> recs[firsts[k]].id]

\* the list comprehension of lines 31-33: item["id"] of an id, which is a
\* str, raises TypeError as soon as get returns an id
ExistingIds(st, wid) ==
    IF GetWhereId(st, wid) = <<>> THEN Return(<<>>) ELSE Raise("TypeError")

\* the try block of lines 30-39: the entries found are deleted; an
\* exception leaves the collection as it is
DeleteExisting(st, wid) ==
    LET existing_ids == ExistingIds(st, wid)
    IN  IF existing_ids.raised \/ existing_ids.value = <<>> THEN st
        ELSE Delete(st, {existing_ids.value[i] : i \in 1..Len(existing_ids.value)})

\* the body of "for wid, recs in grouped.items()": rec is still the
\* variable of the grouping loop of lines 25-26, the last record of the file
ReconcileGroup(st, recs, wid) ==
    LET rec == recs[Len(recs)]
    IN  Add(DeleteExisting(st, wid), RecId(rec), rec.embedding_text, rec.metadata)

\* the body of the loop when collection.get raises (the store does not
\* answer, or rejects the where filter): the except clause of lines 37-39
\* passes, nothing is deleted, and add is called as in every iteration
ReconcileGroupLookupFails(st, recs, wid) ==
    LET rec == recs[Len(recs)]
    IN  Add(st, RecId(rec), rec.embedding_text, rec.metadata)

\* the number of iterations of the loop of a script over the records
Iterations(sc, recs) ==
    IF sc = "upload_workitems" THEN Len(recs) ELSE Len(GroupKeys(recs))

\* the collection after iteration k of the loop
Iterate(sc, st, recs, k) ==
    IF sc = "upload_workitems" THEN UpsertRecord(st, recs[k])
    ELSE ReconcileGroup(st, recs, GroupKeys(recs)[k])

----------------------------------------------------------------------------
(* Runs of the upload scripts *)

Scripts == {"upload_workitems", "upload_chromadb"}

\* process_workitems as a function of the export; the exports that are
\* uploaded have comments whose dates parse
RECURSIVE ProcessedFrom(_, _)
ProcessedFrom(items, p) ==
    IF p > Len(items) THEN <<>>
    ELSE prepare_embedding_text(items[p]).value \o ProcessedFrom(items, p + 1)

\* the versions of work item id: up to maxComments comments of one text,
\* or a single comment of another text
SyncItems(id, maxComments) ==
    {PlainWorkItem(id, Str(<<"a">>), Str(<<>>), Str(<<>>),
                   [k \in 1..n |-> RawComment(CreatedStamp, ModifiedStamp, ShortText)]) :
        n \in 0..maxComments}
    \cup {PlainWorkItem(id, Str(<<"a">>), Str(<<>>), Str(<<>>),
                        <<RawComment(CreatedStamp, ModifiedStamp, <<"b">>)>>)}

\* the cleaned files: work item 1 alone, or with work item 2 after it
InputFiles ==
    {ProcessedFrom(<<w1>>, 1) : w1 \in SyncItems(1, MaxSyncComments)}
    \cup {ProcessedFrom(<<w1, w2>>, 1) :
            w1 \in SyncItems(1, MaxSyncComments), w2 \in SyncItems(2, 0)}

IdleSync ==
    /\ store = <<>>
    /\ records = <<>>
    /\ script = "none"
    /\ sync_pc = "idle"
    /\ rec_pos = 1
    /\ attempts = 0
    /\ base_store = <<>>
    /\ aborted_at = 0
    /\ repeat = FALSE
    /\ lookup_failed = {}

\* a script is started on a cleaned file
StartRun ==
    /\ sync_pc \in {"idle", "done"}
    /\ attempts < MaxRuns
    /\ \E sc \in Scripts, recs \in InputFiles :
           /\ script' = sc
           /\ records' = recs
           /\ repeat' = (sync_pc = "done" /\ sc = script /\ recs = records)
    /\ sync_pc' = "running"
    /\ rec_pos' = 1
    /\ attempts' = attempts + 1
    /\ base_store' = store
    /\ aborted_at' = 0
    /\ lookup_failed' = {}
    /\ UNCHANGED store

\* one iteration of "for rec in records" of upload_workitems.main
UpsertNext ==
    /\ sync_pc = "running"
    /\ script = "upload_workitems"
    /\ rec_pos <= Len(records)
    /\ store' = UpsertRecord(store, records[rec_pos])
    /\ rec_pos' = rec_pos + 1
    /\ UNCHANGED <<records, script, sync_pc, attempts, base_store, aborted_at,
                   repeat, lookup_failed>>

\* one iteration of "for wid, recs in grouped.items()" of upload_chromadb.main
ReconcileNext ==
    /\ sync_pc = "running"
    /\ script = "upload_chromadb"
    /\ rec_pos <= Len(GroupKeys(records))
    /\ store' = ReconcileGroup(store, records, GroupKeys(records)[rec_pos])
    /\ rec_pos' = rec_pos + 1
    /\ UNCHANGED <<records, script, sync_pc, attempts, base_store, aborted_at,
                   repeat, lookup_failed>>

\* upload_chromadb.main is started on a cleaned file
StartReconcile ==
    /\ sync_pc \in {"idle", "done"}
    /\ attempts < MaxRuns
    /\ \E recs \in InputFiles :
           /\ records' = recs
           /\ repeat' = (sync_pc = "done" /\ script = "upload_chromadb"
                         /\ recs = records)
    /\ script' = "upload_chromadb"
    /\ sync_pc' = "running"
    /\ rec_pos' = 1
    /\ attempts' = attempts + 1
    /\ base_store' = store
    /\ aborted_at' = 0
    /\ lookup_failed' = {}
    /\ UNCHANGED store

\* one iteration of "for wid, recs in grouped.items()" in which the lookup
\* of the existing entries raises
ReconcileLookupFails ==
    /\ sync_pc = "running"
    /\ script = "upload_chromadb"
    /\ rec_pos <= Len(GroupKeys(records))
    /\ store' = ReconcileGroupLookupFails(store, records, GroupKeys(records)[rec_pos])
    /\ lookup_failed' = lookup_failed \cup {GroupKeys(records)[rec_pos]}
    /\ rec_pos' = rec_pos + 1
    /\ UNCHANGED <<records, script, sync_pc, attempts, base_store, aborted_at,
                   repeat>>

\* the loop is over: main returns
FinishRun ==
    /\ sync_pc = "running"
    /\ rec_pos > Iterations(script, records)
    /\ sync_pc' = "done"
    /\ UNCHANGED <<store, records, script, rec_pos, attempts, base_store,
                   aborted_at, repeat, lookup_failed>>

\* the store call of the next iteration fails: the exception ends the script
AbortRun ==
    /\ sync_pc = "running"
    /\ rec_pos <= Iterations(script, records)
    /\ sync_pc' = "aborted"
    /\ aborted_at' = rec_pos
    /\ UNCHANGED <<store, records, script, rec_pos, attempts, base_store, repeat,
                   lookup_failed>>

\* the aborted script is run again on the same file
RerunAborted ==
    /\ sync_pc = "aborted"
    /\ attempts < MaxRuns
    /\ sync_pc' = "running"
    /\ rec_pos' = 1
    /\ attempts' = attempts + 1
    /\ lookup_failed' = {}
    /\ UNCHANGED <<store, records, script, base_store, aborted_at, repeat>>

\* the collection a script leaves when it runs over recs from st to its end
RECURSIVE RunFrom(_, _, _, _)
RunFrom(sc, st, recs, k) ==
    IF k > Iterations(sc, recs) THEN st
    ELSE RunFrom(sc, Iterate(sc, st, recs, k), recs, k + 1)

----------------------------------------------------------------------------
(* get_last_date.py *)

\* mutant: only the ISO format is tried
parse_iso_only(value) ==
    IF ~Truthy(value) THEN None
    ELSE LET dt == fromisoformat(ReplaceToken(value.v, "Z", "+00:00"))
         IN  IF dt # None THEN [wall |-> dt.wall - dt.off, off |-> 0] ELSE None

\* parse_mixed_date(value): a datetime in UTC, or None
parse_mixed_date(value) ==
    IF ~Truthy(value) THEN None
    ELSE LET dt == fromisoformat(ReplaceToken(value.v, "Z", "+00:00"))
             cleaned == DropToken(ReplaceToken(DropToken(value.v, ","), " at ", " "),
                                  " UTC")
             naive == strptime(cleaned)
         IN  IF dt # None THEN [wall |-> dt.wall - dt.off, off |-> 0]
             ELSE IF naive # None THEN [wall |-> naive.wall, off |-> 0]
             ELSE None

DateKeys == {"changedDate", "modifiedDate", "createdDate"}

Sentinel == <<"1970-01-01", "T", "00", ":", "00", ":", "00", "Z">>

\* the timestamps found in the metadata of a collection: ISO strings of the
\* tracker, in UTC or with an offset, dates of comments as strftime wrote
\* them, strings that are no date, the empty string and NULL
StoredValues ==
    {Str(IsoString(Clock(0, 20, 8, 11), "Z")),
     Str(IsoString(Clock(0, 21, 0, 0), "+01:00")),
     Str(IsoString(Clock(1, 0, 30, 0), "+01:00")),
     Str(strftime([wall |-> Clock(0, 20, 9, 40), off |-> 0])),
     Str(<<"n/a">>), Str(<<>>), None}

MetadataRows ==
    [key : DateKeys \cup {"title"}, string_value : StoredValues]

IdleDate ==
    /\ db_exists = FALSE
    /\ embedding_metadata = <<>>
    /\ rows = <<>>
    /\ row_pos = 1
    /\ latest = None
    /\ printed = None
    /\ date_pc = "idle"

InitDate ==
    /\ \/ /\ db_exists = TRUE
          /\ embedding_metadata \in SeqsUpTo(MetadataRows, MaxRows)
       \/ /\ db_exists = FALSE
          /\ embedding_metadata = <<>>
    /\ rows = <<>>
    /\ row_pos = 1
    /\ latest = None
    /\ printed = None
    /\ date_pc = "start"

\* lines 41-42: there is no database file
DatabaseMissing ==
    /\ date_pc = "start"
    /\ ~db_exists
    /\ date_pc' = "raised"
    /\ UNCHANGED <<db_exists, embedding_metadata, rows, row_pos, latest, printed>>

\* lines 44-54: the query
SelectDateValues ==
    /\ date_pc = "start"
    /\ db_exists
    /\ rows' = LET hits == SelectSeq(embedding_metadata,
                               LAMBDA r : r.key \in DateKeys)
               IN  [i \in 1..Len(hits) |-> hits[i].string_value]
    /\ row_pos' = 1
    /\ latest' = None
    /\ date_pc' = "scan"
    /\ UNCHANGED <<db_exists, embedding_metadata, printed>>

\* one iteration of "for (value,) in rows"
ScanRow ==
    /\ date_pc = "scan"
    /\ row_pos <= Len(rows)
    /\ LET dt == parse_mixed_date(rows[row_pos])
       IN  latest' = IF dt # None /\ (latest = None \/ dt.wall > latest.wall)
                     THEN dt ELSE latest
    /\ row_pos' = row_pos + 1
    /\ UNCHANGED <<db_exists, embedding_metadata, rows, printed, date_pc>>

\* lines 60-64: the latest date in ISO format, or the fallback
PrintLatest ==
    /\ date_pc = "scan"
    /\ row_pos > Len(rows)
    /\ printed' = IF latest # None
                  THEN ReplaceToken(isoformat(latest), "+00:00", "Z")
                  ELSE Sentinel
    /\ date_pc' = "done"
    /\ UNCHANGED <<db_exists, embedding_metadata, rows, row_pos, latest>>

----------------------------------------------------------------------------
(* One synchronisation: get_last_date.py, fetch_workitems.py with the     *)
(* date it printed in FILTERED_DATE, clean_workitems.py on the export,    *)
(* upload_workitems.py on the cleaned file.                               *)

\* the keys of the metadata of an entry, in the order of the table
MetadataKeys ==
    <<"title", "section", "description", "acceptance_criteria", "author",
      "type", "state", "assignedTo", "storyPoints", "tags", "createdDate",
      "changedDate", "modifiedDate">>

\* the table embedding_metadata of the collection: one row per entry and
\* key, string_value NULL for a value that is no string
EmbeddingMetadata(st) ==
    Join(<<>>,
         [i \in 1..Len(st) |->
             LET keys == SelectSeq(MetadataKeys,
                                   LAMBDA k : k \in DOMAIN st[i].metadata)
             IN  [j \in 1..Len(keys) |->
                     [key |-> keys[j],
                      string_value |-> IF st[i].metadata[keys[j]].t = "str"
                                       THEN st[i].metadata[keys[j]] ELSE None]]])

\* datetime.strptime(last_date, "%Y-%m-%d") as a day number, 2025-01-28
\* being day 0
DayNumber(last_date) ==
    IF last_date = Sentinel[1] THEN -20116
    ELSE (CHOOSE d \in 1..Len(DayTokens) : DayTokens[d] = last_date) - 1

\* the days on which the work items of the tracker were last changed
ChangedDays == {0, 1, 9}

\* work item id of the tracker, last changed on the given day, with a comment
UpstreamItem(id, day) ==
    RawWorkItem(id, Str(<<"a">>), Str(<<>>), Str(<<>>),
                [PlainFields EXCEPT !.changedDate =
                                        Str(IsoString(Clock(day, 22, id, 0), "Z"))],
                <<RawComment(CreatedStamp, ModifiedStamp, ShortText)>>)

Trackers ==
    UNION {{ws \in [1..n -> {UpstreamItem(id, day) :
                                id \in 1..n, day \in ChangedDays}] :
               \A i \in 1..n : ws[i].id = Num(i)} : n \in 0..MaxUpstream}

\* the instant of the changedDate of a work item
ChangedAt(wi) == fromisoformat(ReplaceToken(wi.changedDate.v, "Z", "+00:00")).wall

\* the work items the WIQL query of lines 120-126 selects, in its order:
\* ChangedDate >= since_date, ORDER BY ChangedDate DESC
run_wiql(items, since_date) ==
    LET hits == SelectSeq(items, LAMBDA wi : DayOf(ChangedAt(wi)) >= since_date)
        rank(i) == Cardinality({j \in 1..Len(hits) :
                                   ChangedAt(hits[j]) > ChangedAt(hits[i])})
    IN  [k \in 1..Len(hits) |->
            hits[CHOOSE i \in 1..Len(hits) : rank(i) = k - 1]]

IdlePipe ==
    /\ upstream = <<>>
    /\ aborted_fetch = {}

InitPipe ==
    /\ upstream \in Trackers
    /\ aborted_fetch = {}

\* a synchronisation begins: get_last_date.py opens the database of the
\* collection
StartSync ==
    /\ sync_pc \in {"idle", "done", "aborted"}
    /\ attempts < MaxRuns
    /\ attempts' = attempts + 1
    /\ aborted_fetch' = IF sync_pc = "aborted"
                        THEN {workitems[i].id : i \in 1..Len(workitems)}
                        ELSE {}
    /\ sync_pc' = "dating"
    /\ db_exists' = TRUE
    /\ embedding_metadata' = EmbeddingMetadata(store)
    /\ rows' = <<>>
    /\ row_pos' = 1
    /\ latest' = None
    /\ printed' = None
    /\ date_pc' = "start"
    /\ UNCHANGED <<store, records, script, rec_pos, base_store, aborted_at,
                   repeat, lookup_failed>>
    /\ UNCHANGED <<chunkVars, buildVars, cleanVars, upstream>>

\* the environment variable FILTERED_DATE of fetch_workitems.py: the caller
\* sets it to the date of the line get_last_date.py printed
FILTERED_DATE == printed[1]

\* fetch_workitems.py, lines 112-138: the query for the ids changed since
\* FILTERED_DATE less the buffer; with none the script exits and nothing is
\* uploaded, otherwise the export of these work items is written
FetchWorkItems ==
    /\ sync_pc = "dating"
    /\ date_pc = "done"
    /\ LET last_date == FILTERED_DATE
           since_date == DayNumber(last_date) - BUFFER_DAYS
           work_items == run_wiql(upstream, since_date)
       IN  IF work_items = <<>>
           THEN /\ sync_pc' = "done"
                /\ UNCHANGED buildVars
           ELSE /\ sync_pc' = "fetched"
                /\ workitems' = work_items
                /\ wi_pos' = 1
                /\ processed_records' = <<>>
                /\ output_file' = None
                /\ build_result' = None
                /\ build_pc' = "loop"
    /\ UNCHANGED <<store, records, script, rec_pos, attempts, base_store,
                   aborted_at, repeat, lookup_failed>>
    /\ UNCHANGED <<chunkVars, dateVars, cleanVars, pipeVars>>

\* upload_workitems.main is started on the file process_workitems wrote
StartUpload ==
    /\ sync_pc = "fetched"
    /\ build_pc = "done"
    /\ records' = output_file.v
    /\ script' = "upload_workitems"
    /\ sync_pc' = "running"
    /\ rec_pos' = 1
    /\ base_store' = store
    /\ aborted_at' = 0
    /\ repeat' = FALSE
    /\ lookup_failed' = {}
    /\ UNCHANGED <<store, attempts>>
    /\ UNCHANGED <<chunkVars, buildVars, dateVars, cleanVars, pipeVars>>

----------------------------------------------------------------------------
(* Specifications *)

NextChunk == CallChunkText /\ UNCHANGED <<buildVars, syncVars, dateVars, cleanVars, pipeVars>>

ChunkInit == InitChunk /\ IdleBuild /\ IdleSync /\ IdleDate /\ IdleClean /\ IdlePipe

SpecChunk == ChunkInit /\ [][NextChunk]_vars

NextBuild ==
    \/ ProcessWorkitem /\ UNCHANGED <<chunkVars, syncVars, dateVars, cleanVars, pipeVars>>
    \/ ProcessRaises /\ UNCHANGED <<chunkVars, syncVars, dateVars, cleanVars, pipeVars>>
    \/ WriteOutput /\ UNCHANGED <<chunkVars, syncVars, dateVars, cleanVars, pipeVars>>

BuildInit == InitBuild /\ IdleChunk /\ IdleSync /\ IdleDate /\ IdleClean /\ IdlePipe

SpecBuild == BuildInit /\ [][NextBuild]_vars

NextSync ==
    \/ StartRun /\ UNCHANGED <<chunkVars, buildVars, dateVars, cleanVars, pipeVars>>
    \/ UpsertNext /\ UNCHANGED <<chunkVars, buildVars, dateVars, cleanVars, pipeVars>>
    \/ ReconcileNext /\ UNCHANGED <<chunkVars, buildVars, dateVars, cleanVars, pipeVars>>
    \/ FinishRun /\ UNCHANGED <<chunkVars, buildVars, dateVars, cleanVars, pipeVars>>
    \/ AbortRun /\ UNCHANGED <<chunkVars, buildVars, dateVars, cleanVars, pipeVars>>
    \/ RerunAborted /\ UNCHANGED <<chunkVars, buildVars, dateVars, cleanVars, pipeVars>>

SyncInit == IdleSync /\ IdleChunk /\ IdleBuild /\ IdleDate /\ IdleClean /\ IdlePipe

SpecSync == SyncInit /\ [][NextSync]_vars

\* runs of upload_chromadb.main in which lookups may fail
NextLookup ==
    \/ StartReconcile /\ UNCHANGED <<chunkVars, buildVars, dateVars, cleanVars, pipeVars>>
    \/ ReconcileNext /\ UNCHANGED <<chunkVars, buildVars, dateVars, cleanVars, pipeVars>>
    \/ ReconcileLookupFails /\ UNCHANGED <<chunkVars, buildVars, dateVars, cleanVars, pipeVars>>
    \/ FinishRun /\ UNCHANGED <<chunkVars, buildVars, dateVars, cleanVars, pipeVars>>

LookupInit == IdleSync /\ IdleChunk /\ IdleBuild /\ IdleDate /\ IdleClean /\ IdlePipe

SpecLookup == LookupInit /\ [][NextLookup]_vars

NextClean ==
    \/ CallCleanText /\ UNCHANGED <<chunkVars, buildVars, syncVars, dateVars, pipeVars>>
    \/ CallTableStage /\ UNCHANGED <<chunkVars, buildVars, syncVars, dateVars, pipeVars>>

CleanInit ==
    InitClean /\ IdleChunk /\ IdleBuild /\ IdleSync /\ IdleDate /\ IdlePipe

SpecClean == CleanInit /\ [][NextClean]_vars

NextPipeline ==
    \/ StartSync
    \/ SelectDateValues /\ UNCHANGED <<chunkVars, buildVars, syncVars, cleanVars, pipeVars>>
    \/ ScanRow /\ UNCHANGED <<chunkVars, buildVars, syncVars, cleanVars, pipeVars>>
    \/ PrintLatest /\ UNCHANGED <<chunkVars, buildVars, syncVars, cleanVars, pipeVars>>
    \/ FetchWorkItems
    \/ ProcessWorkitem /\ UNCHANGED <<chunkVars, syncVars, dateVars, cleanVars, pipeVars>>
    \/ WriteOutput /\ UNCHANGED <<chunkVars, syncVars, dateVars, cleanVars, pipeVars>>
    \/ StartUpload
    \/ UpsertNext /\ UNCHANGED <<chunkVars, buildVars, dateVars, cleanVars, pipeVars>>
    \/ AbortRun /\ UNCHANGED <<chunkVars, buildVars, dateVars, cleanVars, pipeVars>>
    \/ FinishRun /\ UNCHANGED <<chunkVars, buildVars, dateVars, cleanVars, pipeVars>>

PipelineInit ==
    InitPipe /\ IdleSync /\ IdleChunk /\ IdleBuild /\ IdleDate /\ IdleClean

SpecPipeline == PipelineInit /\ [][NextPipeline]_vars

NextDate ==
    \/ DatabaseMissing /\ UNCHANGED <<chunkVars, buildVars, syncVars, cleanVars, pipeVars>>
    \/ SelectDateValues /\ UNCHANGED <<chunkVars, buildVars, syncVars, cleanVars, pipeVars>>
    \/ ScanRow /\ UNCHANGED <<chunkVars, buildVars, syncVars, cleanVars, pipeVars>>
    \/ PrintLatest /\ UNCHANGED <<chunkVars, buildVars, syncVars, cleanVars, pipeVars>>

DateInit == InitDate /\ IdleChunk /\ IdleBuild /\ IdleSync /\ IdleClean /\ IdlePipe

SpecDate == DateInit /\ [][NextDate]_vars

----------------------------------------------------------------------------
(* Properties of chunk_text (SpecChunk) *)

\* the words of each returned chunk
ChunkGroups == [k \in 1..Len(chunks) |-> Split(chunks[k])]

\* C7: chunk_text returns contiguous groups of the words of the text, in
\* order and without overlap, so that the groups put end to end are the words
\* of the text; no group is empty, none has more than max_words words and all
\* but the last have exactly max_words; a text without words gives no chunk;
\* 1200 words at max_words = 500 give chunks of 500, 500 and 200 words.
ChunkerPartition ==
    chunk_pc = "done" =>
        /\ JoinRange(<<>>, ChunkGroups, 1, Len(chunks)) = Split(text)
        /\ \A k \in 1..Len(chunks) :
               /\ Len(ChunkGroups[k]) >= 1
               /\ Len(ChunkGroups[k]) <= max_words
               /\ k < Len(chunks) => Len(ChunkGroups[k]) = max_words
        /\ Split(text) = <<>> => chunks = <<>>
        /\ (Len(Split(text)) = 1200 /\ max_words = 500) =>
               [k \in 1..Len(chunks) |-> Len(ChunkGroups[k])] = <<500, 500, 200>>

\* the 1200-word text has been cut at 500 words into three chunks
ChunkerPartitionWitness ==
    /\ chunk_pc = "done"
    /\ Len(Split(text)) = 1200
    /\ max_words = MAX_CHUNK_WORDS
    /\ Len(chunks) = 3

----------------------------------------------------------------------------
(* Properties of prepare_embedding_text and process_workitems (SpecBuild) *)

\* the work item at position p has been given to prepare_embedding_text
Handled(p) == p < wi_pos \/ (p = wi_pos /\ build_pc = "raised")

\* prepare_embedding_text raised on the work item at position p
RaisedAt(p) == p = wi_pos /\ build_pc = "raised"

\* the records in processed_records of the work item wi
RecordsOf(wi) == SelectSeq(processed_records, LAMBDA r : r.id = wi.id)

ChunkIndexes(recs) == {recs[i].chunk_index : i \in 1..Len(recs)}

\* C5: the records built for a work item have pairwise distinct chunk_index
\* values, the integers 0..M-1 for its M main chunks and "c{i}_{j}" for
\* segment j of comment i, and so pairwise distinct entry ids.
ChunkIndexUnique ==
    \A p \in 1..Len(workitems) :
        LET recs == RecordsOf(workitems[p])
            main == SelectSeq(recs, LAMBDA r : r.metadata.section = Str(<<"main">>))
        IN  /\ \A i, j \in 1..Len(recs) :
                   i # j => /\ recs[i].chunk_index # recs[j].chunk_index
                            /\ RecId(recs[i]) # RecId(recs[j])
            /\ \A i \in 1..Len(main) : main[i].chunk_index = Num(i - 1)
            /\ \A i \in 1..Len(recs) :
                   recs[i].metadata.section = Str(<<"comment">>) =>
                       \E c \in 0..(Len(workitems[p].comments) - 1), s \in 0..Len(recs) :
                           recs[i].chunk_index = Str(CommentChunkIndex(c, s))

\* a work item with two main chunks, an empty first comment and a second
\* comment of two segments has been built
ChunkIndexUniqueWitness ==
    /\ build_pc = "done"
    /\ Len(workitems[1].comments) >= 2
    /\ clean_text(workitems[1].comments[1].text) = <<>>
    /\ {Num(0), Num(1), Str(CommentChunkIndex(1, 0)), Str(CommentChunkIndex(1, 1))}
           \subseteq ChunkIndexes(processed_records)

\* C6: every value of the metadata of every record is a string or a number,
\* never None, whichever fields of the work item are null in the export.
MetadataNeverNull ==
    \A i \in 1..Len(processed_records) :
        \A key \in DOMAIN processed_records[i].metadata :
            processed_records[i].metadata[key].t \in {"str", "int"}

\* the comments of wi whose text is not empty once cleaned have dates that parse
OtherDatesParse(wi) ==
    \A j \in 1..Len(wi.comments) :
        clean_text(wi.comments[j].text) # <<>> =>
            /\ ParseCommentDate(wi.comments[j].createdDate) # None
            /\ ParseCommentDate(wi.comments[j].modifiedDate) # None

\* C9: a comment whose text cleans to the empty string yields no record,
\* while the main records of its work item and the records of the other
\* comments (whose timestamps parse) are built.
EmptyCommentElided ==
    \A p \in 1..Len(workitems) :
        Handled(p) =>
            LET wi == workitems[p]
                recs == RecordsOf(wi)
            IN  \A k \in 1..Len(wi.comments) :
                    (clean_text(wi.comments[k].text) = <<>> /\ OtherDatesParse(wi)) =>
                        /\ ~RaisedAt(p)
                        /\ \A s \in 0..Len(recs) :
                               Str(CommentChunkIndex(k - 1, s)) \notin ChunkIndexes(recs)
                        /\ SubSeq(recs, 1, Len(MainRecords(wi))) = MainRecords(wi)
                        /\ \A j \in 1..Len(wi.comments) :
                               clean_text(wi.comments[j].text) # <<>> =>
                                   Str(CommentChunkIndex(j - 1, 0)) \in ChunkIndexes(recs)

\* a comment of wi has a createdDate or modifiedDate that does not parse
HasBadDate(wi) ==
    \E k \in 1..Len(wi.comments) :
        \/ ParseCommentDate(wi.comments[k].createdDate) = None
        \/ ParseCommentDate(wi.comments[k].modifiedDate) = None

\* C10: a comment timestamp that does not parse makes prepare_embedding_text
\* raise: no record of that work item is emitted, the loop of
\* process_workitems does not go on past it, and process_workitems ends with
\* the error and writes no output.
BadDateFailsHard ==
    /\ \A p \in 1..Len(workitems) :
           HasBadDate(workitems[p]) =>
               /\ wi_pos <= p
               /\ RecordsOf(workitems[p]) = <<>>
               /\ build_pc # "done"
               /\ Handled(p) => RaisedAt(p)
    /\ build_pc = "raised" =>
           /\ build_result = Raise("ValueError")
           /\ output_file = None

\* the second work item of an export raised after the first was processed
BadDateFailsHardWitness ==
    /\ build_pc = "raised"
    /\ wi_pos = 2
    /\ HasBadDate(workitems[2])
    /\ processed_records # <<>>

----------------------------------------------------------------------------
(* Properties of the upload scripts (SpecSync) *)

\* the ids of the work items of the file
FileIds == {records[i].id : i \in 1..Len(records)}

\* the records of the file that belong to work item wid
FreshSet(wid) == SelectSeq(records, LAMBDA r : r.id = wid)

\* the entry id is one of work item wid: it begins with "{wid}_"
EntryOf(id, wid) ==
    LET prefix == Digits(wid.v) \o <<"_">>
    IN  Len(id) > Len(prefix) /\ SubSeq(id, 1, Len(prefix)) = prefix

StoredFor(wid) == SelectSeq(store, LAMBDA row : EntryOf(row.id, wid))

\* C1: when upload_chromadb.main has processed the file, no entry of a work
\* item of the file is left in the collection whose chunk index is not in the
\* fresh record set of that work item; a work item that had three comment
\* entries and has one comment record in the file is left with one.
StaleChunksRemoved ==
    (sync_pc = "done" /\ script = "upload_chromadb") =>
        \A wid \in FileIds :
            \A i \in 1..Len(StoredFor(wid)) :
                \E j \in 1..Len(FreshSet(wid)) :
                    StoredFor(wid)[i].id = RecId(FreshSet(wid)[j])

\* C2: when upload_chromadb.main has processed the file, every record of it
\* is in the collection under the id "{id}_{chunk_index}" with its
\* embedding_text and its metadata.
FreshSetInserted ==
    (sync_pc = "done" /\ script = "upload_chromadb") =>
        \A i \in 1..Len(records) :
            \E k \in 1..Len(store) :
                store[k] = Row(RecId(records[i]), records[i].embedding_text,
                               records[i].metadata)

\* C3: a run over the file that the run before it has just uploaded leaves
\* the collection, at each of its steps and at its end, as that run left it;
\* the collection never holds two entries of one id.
InsertIdempotent ==
    /\ repeat => store = base_store
    /\ \A i, j \in 1..Len(store) : i # j => store[i].id # store[j].id

\* upload_workitems has gone a second time over a file of two work items
\* that added entries the first time
InsertIdempotentWitness ==
    /\ repeat
    /\ sync_pc = "done"
    /\ script = "upload_workitems"
    /\ Cardinality(FileIds) = 2
    /\ Len(records) >= 4
    /\ Len(store) >= Len(records)

\* C4: when a run over a file aborted after some of its store operations and
\* the script was run again over the same file to its end, the collection is
\* the one a single run without failure over that file leaves, from the
\* collection the aborted run started with.
RerunMatchesCleanRun ==
    (sync_pc = "done" /\ aborted_at > 0) =>
        store = RunFrom(script, base_store, records, 1)

\* a run over a non-empty collection aborted after two upserts that changed
\* it, and its rerun has come to its end
RerunMatchesCleanRunWitness ==
    /\ sync_pc = "done"
    /\ script = "upload_workitems"
    /\ aborted_at > 2
    /\ base_store # <<>>
    /\ \E i \in 1..Len(base_store) :
           /\ HasId(store, base_store[i].id)
           /\ \A k \in 1..Len(store) : store[k] # base_store[i]

----------------------------------------------------------------------------
(* Properties of upload_chromadb with failing lookups (SpecLookup) *)

\* C11: a lookup of existing entries that fails does not end the run of
\* upload_chromadb.main: the loop goes on over the remaining work items to
\* its end, and each record of a work item whose lookup failed is in the
\* collection under its id with its text and metadata.
LookupFailureNotFatal ==
    (sync_pc = "done" /\ script = "upload_chromadb") =>
        /\ rec_pos > Len(GroupKeys(records))
        /\ \A wid \in lookup_failed :
               \A j \in 1..Len(FreshSet(wid)) :
                   \E k \in 1..Len(store) :
                       store[k] = Row(RecId(FreshSet(wid)[j]),
                                      FreshSet(wid)[j].embedding_text,
                                      FreshSet(wid)[j].metadata)

----------------------------------------------------------------------------
(* Properties of clean_text and of its table stage (SpecClean) *)

\* sub occurs in s
Contains(s, sub) ==
    \E i \in 1..(Len(s) - Len(sub) + 1) : SubSeq(s, i, i + Len(sub) - 1) = sub

\* C12: clean_text of a text with a mention token "@<id>" is the text with
\* the display name of the id in place of the token when MENTION_MAP holds
\* the id, and with "[UNKNOWN]" in its place when it does not; every other
\* "@" is removed and the text around it is kept.
MentionsResolved ==
    \A pre \in BeforeMention, id \in MentionIds, post \in AfterMention :
        (raw_text = MentionText(pre, id, post) /\ clean_result # None) =>
            clean_result.v =
                Strip(CollapseWhitespace(
                    RemoveChars(pre, {"@"})
                    \o (IF id \in DOMAIN MENTION_MAP THEN MENTION_MAP[id]
                        ELSE <<"[", "U", "N", "K", "N", "O", "W", "N", "]">>)
                    \o RemoveChars(post, {"@"})))

\* the sentence of line r of a table of n columns
ExpectedSentence(n, r) ==
    <<"R", "o", "w", ":", " ">>
    \o Join(<<",", " ">>,
            [c \in 1..n |-> HeaderCell(c) \o <<" ", "=", " ">> \o ValueCell(r, c)])
    \o <<".">>

\* the sentences of a table, one per line after the separator that has n
\* cells, in the order of the lines
ExpectedSentences(n, kinds) ==
    LET valid == SelectSeq([r \in 1..Len(kinds) |-> r], LAMBDA r : kinds[r] = "row")
    IN  Join(<<" ">>, [k \in 1..Len(valid) |-> ExpectedSentence(n, valid[k])])

\* C13: markdown_table_to_sentences puts in the place of a table (a header
\* line, a separator line and the lines after them, all starting with "|")
\* one sentence "Row: h1 = v1, ..., hn = vn." per line after the separator
\* that has as many cells as the header, in order; the text on the lines
\* before and after the table is in its result as it was; a text with fewer
\* than two lines starting with "|" is returned as it is.
TableFlattened ==
    table_result # None =>
        /\ \A before \in BeforeTable, n \in 1..MaxCols,
              kinds \in SeqsUpTo(LineKinds, MaxTableRows), after \in AfterTable :
               raw_text = TableText(before, n, kinds, after) =>
                   /\ Contains(table_result.v, ExpectedSentences(n, kinds))
                   /\ \A i \in 1..Len(before) : Contains(table_result.v, before[i])
                   /\ \A i \in 1..Len(after) : Contains(table_result.v, after[i])
                   /\ (before = <<>> /\ after = <<>>) =>
                          table_result.v = ExpectedSentences(n, kinds)
        /\ raw_text \in LoneLineTexts => table_result.v = raw_text

\* C14: clean_text of a text with a LaTeX command of the symbol table is the
\* text with the replacement of the command in its place: the replacement is
\* still there after the removal of braces, of the sigils and of the dash
\* runs and after the whitespace is collapsed.
LatexSymbolsSurvive ==
    \A pre \in BeforeLatex, k \in 1..Len(latex_symbols), post \in AfterLatex :
        (raw_text = LatexText(pre, latex_symbols[k][1], post)
         /\ clean_result # None) =>
            clean_result.v =
                Strip(CollapseWhitespace(
                    RemoveChars(pre, {"{", "}"}) \o latex_symbols[k][2]
                    \o RemoveChars(post, {"{", "}"})))

----------------------------------------------------------------------------
(* Properties of the synchronisation (SpecPipeline) *)

\* C15: when a synchronisation whose upload aborted is followed by one that
\* runs to its end, every work item the aborted one had fetched has each of
\* its records in the collection, under its id with its text and metadata.
NoChangeLost ==
    (sync_pc = "done" /\ aborted_fetch # {}) =>
        \A i \in 1..Len(upstream) :
            upstream[i].id \in aborted_fetch =>
                LET recs == prepare_embedding_text(upstream[i]).value
                IN  \A j \in 1..Len(recs) :
                        \E k \in 1..Len(store) :
                            store[k] = Row(RecId(recs[j]), recs[j].embedding_text,
                                           recs[j].metadata)

----------------------------------------------------------------------------
(* Properties of get_latest_modified_date (SpecDate) *)

\* the stored strings that are timestamps, each with the UTC instant it
\* denotes, in seconds since 2025-01-28T00:00:00Z
Instants ==
    {<<Str(IsoString(Clock(0, 20, 8, 11), "Z")), Clock(0, 20, 8, 11)>>,
     <<Str(IsoString(Clock(0, 21, 0, 0), "+01:00")), Clock(0, 20, 0, 0)>>,
     <<Str(IsoString(Clock(1, 0, 30, 0), "+01:00")), Clock(0, 23, 30, 0)>>,
     <<Str(<<"January 28", ",", " 2025", " at ", "20", ":", "09", " UTC">>),
       Clock(0, 20, 9, 0)>>}

\* the instants of the values stored under the date keys
StoredInstants ==
    {p[2] : p \in {q \in Instants :
                      \E i \in 1..Len(embedding_metadata) :
                          /\ embedding_metadata[i].key \in DateKeys
                          /\ embedding_metadata[i].string_value = q[1]}}

\* C8: get_latest_modified_date prints the latest of the timestamps stored
\* under changedDate, modifiedDate and createdDate that parse, in ISO format
\* or in the format of the comment dates, as a UTC time; values that do not
\* parse are passed over; when none parses, as for an empty collection, it
\* prints 1970-01-01T00:00:00Z.
WatermarkIsLatest ==
    date_pc = "done" =>
        printed = IF StoredInstants = {} THEN Sentinel
                  ELSE IsoString(CHOOSE t \in StoredInstants :
                                     \A u \in StoredInstants : u <= t, "Z")

\* the latest stored date is one in the format of the comment dates, beside
\* a value that does not parse
WatermarkIsLatestWitness ==
    /\ date_pc = "done"
    /\ printed = IsoString(Clock(0, 20, 9, 0), "Z")
    /\ \E i \in 1..Len(embedding_metadata) :
           /\ embedding_metadata[i].key \in DateKeys
           /\ embedding_metadata[i].string_value = Str(<<"n/a">>)

====
